---- MODULE Spec2Model ----
(***************************************************************************)
(* Model of the go-genesis block-generation queue                          *)
(* (packages/protocols/generation_queue.go) and of the smart-contract      *)
(* front end (packages/smart/smart.go).                                    *)
(*                                                                         *)
(* Times are Go time.Time values counted in nanoseconds since the Unix     *)
(* epoch; durations are Go time.Duration values (nanoseconds).             *)
(***************************************************************************)
EXTENDS Integers, Sequences, FiniteSets, TLC

VARIABLES
    start,          \* BlockTimeCounter.start
    duration,       \* BlockTimeCounter.duration
    numberNodes,    \* BlockTimeCounter.numberNodes
    blocks,         \* the block store read by model.Block.GetNodeBlocksAtTime
    call,           \* the last scheduler call: its operation, arguments, result
    Children,       \* smartVM.Children: the compiled blocks, by sequential id
    Objects,        \* smartVM.Objects: name -> object
    vmcall,         \* the last call of package smart: operation, arguments, result
    writer,         \* the goroutine that compiles or flushes: its position
    reader,         \* the goroutine that looks a contract up: its position
    tx              \* the transaction being executed: its contract, position, runs

btcVars == <<start, duration, numberNodes>>

schedVars == <<start, duration, numberNodes, blocks, call>>

treeVars == <<Children, Objects>>

raceVars == <<writer, reader>>

vars == <<start, duration, numberNodes, blocks, call, Children, Objects,
          vmcall, writer, reader, tx>>

(***************************************************************************)
(* Bounds of the model.                                                    *)
(***************************************************************************)
MaxStartSec == 1     \* epoch start, in whole seconds, is 0..MaxStartSec
MaxDurMs == 3        \* slot duration, in whole milliseconds, is 1..MaxDurMs
MaxNodes == 3        \* numberNodes is 1..MaxNodes
MaxSlot == 4         \* times are drawn from slots 0..MaxSlot
MaxBlocks == 1       \* blocks held by the store

(***************************************************************************)
(* Go's time constants, in nanoseconds.                                    *)
(***************************************************************************)
Millisecond == 1000000
Second == 1000 * Millisecond

(***************************************************************************)
(* Go integer arithmetic: / truncates toward zero, % takes the sign of     *)
(* the dividend.                                                           *)
(***************************************************************************)
GoDiv(a, b) ==
    IF a >= 0 THEN a \div b ELSE -((-a) \div b)

GoMod(a, b) ==
    a - b * GoDiv(a, b)

(***************************************************************************)
(* The error values of generation_queue.go.                                *)
(***************************************************************************)
NoError == "nil"
WrongNodePositionError == "wrong node position"
TimeError == "current time before first block"
DuplicateBlockError == "block for this time interval exists"
StoreError == "store error"

\* time.Unix(0, 0)
UnixZero == 0 * Second

(***************************************************************************)
(* BlockTimeCounter                                                        *)
(***************************************************************************)
QueueNoOffset(t) ==
    IF t < start
    THEN [val |-> -1, err |-> TimeError]
    ELSE [val |-> GoDiv(t - start, duration), err |-> NoError]

\* Queue returns serial queue number for time
Queue(t) ==
    IF t < start
    THEN [val |-> -1, err |-> TimeError]
    ELSE [val |-> GoDiv((t - start) - 1, duration), err |-> NoError]

\* NodePosition returns generating node position for time
NodePosition(t) ==
    LET q == Queue(t)
    IN  IF q.err # NoError
        THEN [val |-> -1, err |-> q.err]
        ELSE [val |-> GoMod(q.val, numberNodes), err |-> NoError]

NextTimeNoOffset(t, nodePosition) ==
    IF nodePosition >= numberNodes
    THEN [val |-> UnixZero, err |-> WrongNodePositionError]
    ELSE LET q == Queue(t)
         IN  IF q.err # NoError
             THEN [val |-> UnixZero, err |-> q.err]
             ELSE LET curNodePosition == GoMod(q.val, numberNodes)
                      d0 == nodePosition - curNodePosition
                      d == IF curNodePosition >= nodePosition
                           THEN d0 + numberNodes
                           ELSE d0
                  IN  [val |-> start + duration * (q.val + d),
                       err |-> NoError]

\* NextTime returns next generation time for node position at time
NextTime(t, nodePosition) ==
    IF nodePosition >= numberNodes
    THEN [val |-> UnixZero, err |-> WrongNodePositionError]
    ELSE LET q == Queue(t)
         IN  IF q.err # NoError
             THEN [val |-> UnixZero, err |-> q.err]
             ELSE LET curNodePosition == GoMod(q.val, numberNodes)
                      d0 == nodePosition - curNodePosition
                      d == IF curNodePosition >= nodePosition
                           THEN d0 + numberNodes
                           ELSE d0
                  IN  [val |-> start + (duration * (q.val + d) + Millisecond),
                       err |-> NoError]

\* RangesByTime returns start and end of interval by time
RangesByTime(t) ==
    LET p == NodePosition(t)
    IN  IF p.err # NoError
        THEN [start |-> UnixZero, end |-> UnixZero, err |-> p.err]
        ELSE LET end == start + duration * (p.val + 1)
             IN  [start |-> (end - duration) + 1 * Millisecond,
                  end |-> end,
                  err |-> NoError]

TimeToGenerateStrictGuard(at, nodePosition) ==
    IF nodePosition > numberNodes
    THEN [val |-> FALSE, err |-> WrongNodePositionError]
    ELSE LET p == NodePosition(at)
         IN  [val |-> (p.val = nodePosition), err |-> p.err]

TimeToGenerate(at, nodePosition) ==
    IF nodePosition >= numberNodes
    THEN [val |-> FALSE, err |-> WrongNodePositionError]
    ELSE LET p == NodePosition(at)
         IN  [val |-> (p.val = nodePosition), err |-> p.err]

(***************************************************************************)
(* The block store: the blocks some node produced at some time, and the    *)
(* query BlockForTimeExists makes of it.                                   *)
(***************************************************************************)
GetNodeBlocksAtTime(startInterval, endInterval, nodePosition) ==
    {b \in blocks : /\ b.node = nodePosition
                    /\ startInterval <= b.time
                    /\ b.time < endInterval}

\* BlockForTimeExists, given whether the store answers the query
BlockForTimeExists(t, nodePosition, storeOk) ==
    LET r == RangesByTime(t)
    IN  IF r.err # NoError
        THEN [val |-> FALSE, err |-> r.err]
        ELSE IF ~storeOk
        THEN [val |-> FALSE, err |-> StoreError]
        ELSE IF GetNodeBlocksAtTime(r.start, r.end, nodePosition) # {}
        THEN [val |-> FALSE, err |-> DuplicateBlockError]
        ELSE [val |-> TRUE, err |-> NoError]

(***************************************************************************)
(* Package smart.                                                          *)
(*                                                                         *)
(* A compiled block (script.Block) is a record: its Type, and for a        *)
(* contract its ContractInfo (Name and the declared Tx fields) and the     *)
(* names of the functions in its own Objects.  Blocks are never changed    *)
(* once compiled, so a *script.Block is modelled by the block it points    *)
(* to.                                                                     *)
(***************************************************************************)
MaxChildren == 2     \* blocks compiled into smartVM.Children

OBJ_CONTRACT == "OBJ_CONTRACT"
OBJ_FUNC == "OBJ_FUNC"

\* the phase bits of Contract.Called
CALL_INIT == 1
CALL_FRONT == 2
CALL_MAIN == 4

\* a nil pointer, a nil interface, a missing map entry
Nil == [tag |-> "nil"]

StringValue(s) == [tag |-> "string", s |-> s]
Int64Value(n) == [tag |-> "int64", n |-> n]
BytesValue(b) == [tag |-> "[]uint8", b |-> b]

Field(name, type) == [Name |-> name, Type |-> type]

ContractBlock(name, txFields, funcs) ==
    [Type |-> OBJ_CONTRACT, Name |-> name, Tx |-> txFields, Funcs |-> funcs]

FuncBlock(name) ==
    [Type |-> OBJ_FUNC, Name |-> name, Tx |-> <<>>, Funcs |-> {}]

\* the sources handed to Compile: contracts with their tx sections and
\* phase functions, and a function outside any contract
Sources ==
    { ContractBlock("Pay", <<Field("amount", "int64"), Field("pub", "[]uint8")>>,
                    {"front", "main"}),
      ContractBlock("Note", <<Field("memo", "string")>>,
                    {"init", "front", "main"}),
      ContractBlock("Gift", <<Field("memo", "string"), Field("amount", "int64"),
                              Field("pub", "[]uint8")>>,
                    {"main"}),
      ContractBlock("Ping", <<>>, {"init", "main"}),
      FuncBlock("Helper") }

FieldNames == {"amount", "pub", "memo"}

\* the values a transaction may carry under each name: the declared type,
\* other types, or nothing
ExtendValues(name) ==
    CASE name = "amount" ->
           {Nil, Int64Value(500), Int64Value(-7), StringValue("500")}
      [] name = "pub" ->
           {Nil, BytesValue(<<171, 205>>), BytesValue(<<0, 15>>),
            StringValue("abcd")}
      [] name = "memo" ->
           {Nil, StringValue("hi"), BytesValue(<<104, 105>>)}

Extends ==
    {e \in [FieldNames -> UNION {ExtendValues(n) : n \in FieldNames}] :
        \A n \in FieldNames : e[n] \in ExtendValues(n)}

(***************************************************************************)
(* fmt and encoding/hex, as TxJson uses them.                              *)
(***************************************************************************)
Digits == "0123456789"
HexDigits == "0123456789abcdef"
\* the ASCII lower-case letters, from code 97 on
LowerCase == "abcdefghijklmnopqrstuvwxyz"

CharAt(str, i) == SubSeq(str, i, i)

RECURSIVE FormatNat(_)
FormatNat(n) ==
    IF n < 10
    THEN CharAt(Digits, n + 1)
    ELSE FormatNat(n \div 10) \o CharAt(Digits, (n % 10) + 1)

\* %d of an integer
FormatInt(n) ==
    IF n < 0 THEN "-" \o FormatNat(-n) ELSE FormatNat(n)

\* hex.EncodeToString
RECURSIVE EncodeToString(_)
EncodeToString(b) ==
    IF b = <<>>
    THEN ""
    ELSE CharAt(HexDigits, (Head(b) \div 16) + 1)
           \o CharAt(HexDigits, (Head(b) % 16) + 1)
           \o EncodeToString(Tail(b))

\* string(b) of bytes that are lower-case letters
RECURSIVE BytesAsString(_)
BytesAsString(b) ==
    IF b = <<>>
    THEN ""
    ELSE CharAt(LowerCase, Head(b) - 96) \o BytesAsString(Tail(b))

\* %d of a byte slice: [1 2]
RECURSIVE FormatByteList(_)
FormatByteList(b) ==
    IF b = <<>>
    THEN ""
    ELSE IF Len(b) = 1
    THEN FormatNat(Head(b))
    ELSE FormatNat(Head(b)) \o " " \o FormatByteList(Tail(b))

\* fmt's %s of an interface value
SprintS(v) ==
    CASE v.tag = "string" -> v.s
      [] v.tag = "[]uint8" -> BytesAsString(v.b)
      [] v.tag = "int64" -> "%!s(int64=" \o FormatInt(v.n) \o ")"
      [] v.tag = "nil" -> "%!s(<nil>)"

\* fmt's %d of an interface value
SprintD(v) ==
    CASE v.tag = "int64" -> FormatInt(v.n)
      [] v.tag = "[]uint8" -> "[" \o FormatByteList(v.b) \o "]"
      [] v.tag = "string" -> "%!d(string=" \o v.s \o ")"
      [] v.tag = "nil" -> "%!d(<nil>)"

\* strings.Join
RECURSIVE Join(_, _)
Join(lines, sep) ==
    IF lines = <<>>
    THEN ""
    ELSE IF Len(lines) = 1
    THEN Head(lines)
    ELSE Head(lines) \o sep \o Join(Tail(lines), sep)

(***************************************************************************)
(* TxJson.  The loop over the declared fields appends one line per field   *)
(* of type string, int64 or []uint8; the []uint8 case asserts the value's  *)
(* type and panics when the value is anything else.                        *)
(***************************************************************************)
NoLines == [panic |-> FALSE, lines |-> <<>>]

RECURSIVE TxLines(_, _, _)
TxLines(txFields, extend, acc) ==
    IF txFields = <<>> \/ acc.panic
    THEN acc
    ELSE LET fitem == Head(txFields)
             v == extend[fitem.Name]
             next ==
               CASE fitem.Type = "string" ->
                      [acc EXCEPT !.lines = Append(@,
                          "\"" \o fitem.Name \o "\": \"" \o SprintS(v) \o "\"")]
                 [] fitem.Type = "int64" ->
                      [acc EXCEPT !.lines = Append(@,
                          "\"" \o fitem.Name \o "\": " \o SprintD(v))]
                 [] fitem.Type = "[]uint8" ->
                      IF v.tag = "[]uint8"
                      THEN [acc EXCEPT !.lines = Append(@,
                          "\"" \o fitem.Name \o "\": \"" \o EncodeToString(v.b) \o "\"")]
                      ELSE [acc EXCEPT !.panic = TRUE]
                 [] OTHER -> acc
         IN  TxLines(Tail(txFields), extend, next)

TxJsonBareComma(contract) ==
    LET r == TxLines(contract.Block.Tx, contract.Extend, NoLines)
    IN  IF r.panic
        THEN [kind |-> "panic"]
        ELSE [kind |-> "ok", out |-> ("{" \o Join(r.lines, ",")) \o "}"]

TxJson(contract) ==
    LET r == TxLines(contract.Block.Tx, contract.Extend, NoLines)
    IN  IF r.panic
        THEN [kind |-> "panic"]
        ELSE [kind |-> "ok", out |-> ("{" \o Join(r.lines, ",\r\n")) \o "}"]

(***************************************************************************)
(* Lookups in the tree.  Go indexes Children from 0, a sequence from 1.    *)
(***************************************************************************)
\* Returns true if the contract exists
GetContract(objects, name) ==
    IF name \in DOMAIN objects /\ objects[name].Type = OBJ_CONTRACT
    THEN [kind |-> "contract", Name |-> name, Block |-> objects[name].Value]
    ELSE [kind |-> "nil"]

\* Returns true if the contract exists
GetContractById(children, id) ==
    IF Len(children) <= id
    THEN [kind |-> "nil"]
    ELSE IF id < 0
    THEN [kind |-> "panic"]        \* index out of range
    ELSE IF children[id + 1].Type # OBJ_CONTRACT
    THEN [kind |-> "nil"]
    ELSE [kind |-> "contract", Name |-> children[id + 1].Name,
          Block |-> children[id + 1]]

GetFunc(contract, name) ==
    IF name \in contract.Block.Funcs
    THEN [kind |-> "block", func |-> name, of |-> contract.Block.Name]
    ELSE [kind |-> "nil"]

(***************************************************************************)
(* Compile and FlushBlock hand the source to smartVM, which registers the  *)
(* compiled object under its name and appends it to Children.              *)
(***************************************************************************)
Register(objects, block) ==
    [n \in (DOMAIN objects) \cup {block.Name} |->
        IF n = block.Name
        THEN [Type |-> block.Type, Value |-> block]
        ELSE objects[n]]

(***************************************************************************)
(* Inputs.                                                                 *)
(***************************************************************************)
\* offsets into a slot: its boundary, one nanosecond and one millisecond
\* past it, and its middle
Offsets == {0, 1, Millisecond, duration \div 2}

\* the instants the calls are made at: around every slot boundary, and one
\* before the epoch
Times ==
    {start + k * duration + o : k \in 0..MaxSlot, o \in Offsets} \cup {start - 1}

\* node positions handed to the calls: valid ones, numberNodes and above,
\* and a negative one
Positions == (-1)..(MaxNodes + 1)

NoCall == [op |-> "none"]

(***************************************************************************)
(* NewBlockTimeCounter: start is a whole number of seconds, duration is    *)
(* milliseconds of generation time plus seconds of gap, hence a whole      *)
(* number of milliseconds.                                                 *)
(***************************************************************************)
NewBlockTimeCounter ==
    /\ start \in {s * Second : s \in 0..MaxStartSec}
    /\ duration \in {m * Millisecond : m \in 1..MaxDurMs}
    /\ numberNodes \in 1..MaxNodes

\* func init(): smartVM = script.NewVM()
NoObjects == [n \in {} |-> Nil]

IdleWriter == [pc |-> "idle"]
IdleReader == [pc |-> "idle"]
NoTx == [pc |-> "idle"]

smartInit ==
    /\ Children = <<>>
    /\ Objects = NoObjects
    /\ vmcall = NoCall
    /\ writer = IdleWriter
    /\ reader = IdleReader
    /\ tx = NoTx

Init ==
    /\ NewBlockTimeCounter
    /\ blocks = {}
    /\ call = NoCall
    /\ smartInit

CallQueue ==
    /\ \E t \in Times :
         call' = [op |-> "Queue", t |-> t, ret |-> Queue(t)]
    /\ UNCHANGED <<btcVars, blocks, treeVars, vmcall, raceVars, tx>>

CallNodePosition ==
    /\ \E t \in Times :
         call' = [op |-> "NodePosition", t |-> t, ret |-> NodePosition(t)]
    /\ UNCHANGED <<btcVars, blocks, treeVars, vmcall, raceVars, tx>>

CallNextTime ==
    /\ \E t \in Times, p \in Positions :
         call' = [op |-> "NextTime", t |-> t, pos |-> p, ret |-> NextTime(t, p)]
    /\ UNCHANGED <<btcVars, blocks, treeVars, vmcall, raceVars, tx>>

CallRangesByTime ==
    /\ \E t \in Times :
         call' = [op |-> "RangesByTime", t |-> t, ret |-> RangesByTime(t)]
    /\ UNCHANGED <<btcVars, blocks, treeVars, vmcall, raceVars, tx>>

CallTimeToGenerate ==
    /\ \E t \in Times, p \in Positions :
         call' = [op |-> "TimeToGenerate", t |-> t, pos |-> p,
                  ret |-> TimeToGenerate(t, p)]
    /\ UNCHANGED <<btcVars, blocks, treeVars, vmcall, raceVars, tx>>

Next ==
    \/ CallQueue
    \/ CallNodePosition
    \/ CallNextTime
    \/ CallRangesByTime
    \/ CallTimeToGenerate

Spec == Init /\ [][Next]_vars

(***************************************************************************)
(* The block store seen by BlockForTimeExists: blocks appear in it as      *)
(* nodes produce them.                                                     *)
(***************************************************************************)
\* the times of the stored blocks: just after a slot boundary and a
\* millisecond after it
BlockTimes ==
    {start + k * duration + o : k \in 0..MaxSlot, o \in {1, Millisecond}}

InsertBlock ==
    /\ Cardinality(blocks) < MaxBlocks
    /\ \E n \in 0..(numberNodes - 1), t \in BlockTimes :
         blocks' = blocks \cup {[node |-> n, time |-> t]}
    /\ UNCHANGED <<btcVars, call, treeVars, vmcall, raceVars, tx>>

CallBlockForTimeExists ==
    /\ \E t \in Times, p \in 0..(numberNodes - 1), storeOk \in BOOLEAN :
         call' = [op |-> "BlockForTimeExists", t |-> t, pos |-> p,
                  storeOk |-> storeOk, store |-> blocks,
                  ret |-> BlockForTimeExists(t, p, storeOk)]
    /\ UNCHANGED <<btcVars, blocks, treeVars, vmcall, raceVars, tx>>

NextStore ==
    \/ InsertBlock
    \/ CallBlockForTimeExists

\* a counter whose first block is at second 0
InitStore ==
    /\ Init
    /\ start = 0

SpecStore == InitStore /\ [][NextStore]_vars

(***************************************************************************)
(* Properties of the block-generation queue.                               *)
(***************************************************************************)
ValidPosition(p) == p \in 0..(numberNodes - 1)

\* C1: for a valid node position and a time at or after the epoch start,
\* NextTime returns, without error, a time that is later than the given
\* time and whose NodePosition is the given position.
C1_NextTimeIsOwnLaterSlot ==
    (call.op = "NextTime" /\ call.t >= start /\ ValidPosition(call.pos)) =>
        /\ call.ret.err = NoError
        /\ NodePosition(call.ret.val) = [val |-> call.pos, err |-> NoError]
        /\ call.ret.val > call.t

\* C1 witness: NextTime was called on a slot boundary after the epoch start
\* whose slot already belongs to the given position, among several nodes.
C1_Witness ==
    /\ call.op = "NextTime"
    /\ numberNodes > 1
    /\ call.t > start
    /\ (call.t - start) % duration = 0
    /\ NodePosition(call.t).val = call.pos
    /\ call.ret.err = NoError

\* C2 (as claimed): two times in the same interval
\* [start + i*duration, start + (i+1)*duration) have Queue i, so the instant
\* start + i*duration belongs to slot i.
C2_Original ==
    (call.op = "Queue" /\ call.t >= start) =>
        \A i \in 0..(MaxSlot + 1) :
            (start + i * duration <= call.t /\ call.t < start + (i + 1) * duration)
                => call.ret.val = i

\* the slot of index i as Queue cuts it: open at its start, closed at its
\* end, except that slot 0 also holds the epoch start itself
InSlot(t, i) ==
    \/ start + i * duration < t /\ t <= start + (i + 1) * duration
    \/ i = 0 /\ t = start

\* C2 (amended): two times in the same interval
\* (start + i*duration, start + (i+1)*duration] have Queue i and hence the
\* same NodePosition; the instant start + i*duration, i >= 1, belongs to
\* slot i-1, and the epoch start itself to slot 0.
C2_SlotOpenAtItsStart ==
    (call.op = "Queue" /\ call.t >= start) =>
        /\ call.ret.err = NoError
        /\ \A i \in 0..(MaxSlot + 1) : InSlot(call.t, i) => call.ret.val = i
        /\ \A i \in 0..(MaxSlot + 1) : \A t2 \in Times :
              (InSlot(call.t, i) /\ InSlot(t2, i)) =>
                  /\ Queue(t2) = call.ret
                  /\ NodePosition(t2) = NodePosition(call.t)

\* C2 witness: Queue was called on the boundary between slots 1 and 2 and
\* answered slot 1.
C2_Witness ==
    /\ call.op = "Queue"
    /\ call.t = start + 2 * duration
    /\ call.ret = [val |-> 1, err |-> NoError]

\* C3: TimeToGenerate fails with WrongNodePositionError when the position
\* is numberNodes or more; otherwise at or after the epoch start it returns,
\* without error, whether NodePosition of the time is the position, and
\* before the epoch start it returns TimeError.  With start 0, three nodes
\* and a slot of 2 ms, the time 5 ms (two and a half slots in, as 25 s is
\* for slots of 10 s) is in slot 2: position 2 gets true, position 0 false.
C3_TimeToGenerate ==
    (call.op = "TimeToGenerate") =>
        /\ call.pos >= numberNodes => call.ret.err = WrongNodePositionError
        /\ (call.pos < numberNodes /\ call.t >= start) =>
              /\ call.ret.err = NoError
              /\ call.ret.val = (NodePosition(call.t).val = call.pos)
        /\ (call.pos < numberNodes /\ call.t < start) =>
              call.ret.err = TimeError
        /\ (/\ start = 0
            /\ duration = 2 * Millisecond
            /\ numberNodes = 3
            /\ call.t = 5 * Millisecond) =>
              /\ Queue(call.t).val = 2
              /\ call.pos = 2 => call.ret = [val |-> TRUE, err |-> NoError]
              /\ call.pos = 0 => call.ret = [val |-> FALSE, err |-> NoError]

\* C3 witness: the example's call for position 2 returned true.
C3_Witness ==
    /\ call.op = "TimeToGenerate"
    /\ start = 0
    /\ duration = 2 * Millisecond
    /\ numberNodes = 3
    /\ call.t = 5 * Millisecond
    /\ call.pos = 2
    /\ call.ret.val = TRUE

\* C4 (as claimed): for a time at or after the epoch start, RangesByTime
\* returns the interval of the slot holding the time: it starts at
\* start + Queue(t)*duration, is one duration long and holds the time.
C4_Original ==
    (call.op = "RangesByTime" /\ call.t >= start) =>
        /\ call.ret.err = NoError
        /\ call.ret.start = start + Queue(call.t).val * duration
        /\ call.ret.end = call.ret.start + duration
        /\ call.ret.start <= call.t
        /\ call.t < call.ret.end

\* C5 (as claimed): for a time at or after the epoch start,
\* BlockForTimeExists fails with DuplicateBlockError exactly when the store
\* answers and holds a block of the position in the slot of the time; a
\* failing store query gives the store's error.
C5_Original ==
    (call.op = "BlockForTimeExists" /\ call.t >= start) =>
        /\ (call.ret.err = DuplicateBlockError) <=>
              /\ call.storeOk
              /\ \E b \in call.store :
                    /\ b.node = call.pos
                    /\ Queue(b.time).val = Queue(call.t).val
        /\ ~call.storeOk => call.ret.err = StoreError
        /\ (call.storeOk /\ call.ret.err # DuplicateBlockError) =>
              call.ret = [val |-> TRUE, err |-> NoError]

(***************************************************************************)
(* Package smart, called from one goroutine.                               *)
(***************************************************************************)
Names == {src.Name : src \in Sources} \cup {"Missing"}

\* int32 ids: below, inside and above 0..len(Children)-1
Ids == (-2)..(MaxChildren + 1)

FuncNames == {"init", "front", "main", "conditions"}

Compile ==
    /\ Len(Children) < MaxChildren
    /\ \E src \in Sources :
         /\ Children' = Append(Children, src)
         /\ Objects' = Register(Objects, src)
    /\ UNCHANGED <<schedVars, vmcall, raceVars, tx>>

CallGetContract ==
    /\ \E name \in Names :
         vmcall' = [op |-> "GetContract", name |-> name, objects |-> Objects,
                    ret |-> GetContract(Objects, name)]
    /\ UNCHANGED <<schedVars, treeVars, raceVars, tx>>

CallGetContractById ==
    /\ \E id \in Ids :
         vmcall' = [op |-> "GetContractById", id |-> id, children |-> Children,
                    ret |-> GetContractById(Children, id)]
    /\ UNCHANGED <<schedVars, treeVars, raceVars, tx>>

CallGetFunc ==
    /\ \E name \in Names, f \in FuncNames :
         LET c == GetContract(Objects, name)
         IN  /\ c.kind = "contract"
             /\ vmcall' = [op |-> "GetFunc", contract |-> c, name |-> f,
                           ret |-> GetFunc(c, f)]
    /\ UNCHANGED <<schedVars, treeVars, raceVars, tx>>

\* the VM calls the builtin TxJson with a contract whose Extend is set
CallTxJson ==
    /\ \E name \in Names, e \in Extends :
         LET c == GetContract(Objects, name)
         IN  /\ c.kind = "contract"
             /\ LET contract == [Name |-> c.Name, Block |-> c.Block, Extend |-> e]
                IN  vmcall' = [op |-> "TxJson", contract |-> contract,
                               ret |-> TxJson(contract)]
    /\ UNCHANGED <<schedVars, treeVars, raceVars, tx>>

NextVM ==
    \/ Compile
    \/ CallGetContract
    \/ CallGetContractById
    \/ CallGetFunc
    \/ CallTxJson

\* the schedule of a node whose first block is at second 0, with slots of
\* one millisecond and one node
InitVM ==
    /\ start = 0
    /\ duration = Millisecond
    /\ numberNodes = 1
    /\ blocks = {}
    /\ call = NoCall
    /\ smartInit

SpecVM == InitVM /\ [][NextVM]_vars

(***************************************************************************)
(* Properties of package smart.                                            *)
(***************************************************************************)
\* C6 (as claimed): GetContractById never faults, and it returns nil for
\* every id outside 0..len(Children)-1, negative ids included, and for the
\* id of an object that is no contract.
C6_Original ==
    (vmcall.op = "GetContractById") =>
        /\ vmcall.ret.kind # "panic"
        /\ (\/ vmcall.id < 0
            \/ vmcall.id >= Len(vmcall.children)
            \/ vmcall.children[vmcall.id + 1].Type # OBJ_CONTRACT)
              => vmcall.ret.kind = "nil"

\* every declared field is in extend with a value of the declared type
AllFieldsTyped(contract) ==
    \A i \in 1..Len(contract.Block.Tx) :
        contract.Extend[contract.Block.Tx[i].Name].tag = contract.Block.Tx[i].Type

\* the rendering the claim gives for a declared field and its value
Rendering(fitem, v) ==
    CASE fitem.Type = "string" -> "\"" \o fitem.Name \o "\": \"" \o v.s \o "\""
      [] fitem.Type = "int64" -> "\"" \o fitem.Name \o "\": " \o FormatInt(v.n)
      [] fitem.Type = "[]uint8" ->
           "\"" \o fitem.Name \o "\": \"" \o EncodeToString(v.b) \o "\""

\* the renderings of the fields from the i-th on, in declaration order, each
\* but the last followed by sep
RECURSIVE Renderings(_, _, _)
Renderings(contract, i, sep) ==
    IF i > Len(contract.Block.Tx)
    THEN ""
    ELSE Rendering(contract.Block.Tx[i], contract.Extend[contract.Block.Tx[i].Name])
           \o (IF i < Len(contract.Block.Tx) THEN sep ELSE "")
           \o Renderings(contract, i + 1, sep)

IsExample(contract) ==
    /\ contract.Block.Tx = <<Field("amount", "int64"), Field("pub", "[]uint8")>>
    /\ contract.Extend["amount"] = Int64Value(500)
    /\ contract.Extend["pub"] = BytesValue(<<171, 205>>)

\* C7 (as claimed): with every declared field in extend with its declared
\* type, TxJson returns { then the fields' renderings in declaration order
\* with a single comma and nothing else between two of them, then }; the
\* example gives {"amount": 500,"pub": "abcd"}.
C7_Original ==
    (vmcall.op = "TxJson" /\ AllFieldsTyped(vmcall.contract)) =>
        /\ vmcall.ret.kind = "ok"
        /\ vmcall.ret.out = "{" \o Renderings(vmcall.contract, 1, ",") \o "}"
        /\ IsExample(vmcall.contract) =>
              vmcall.ret.out = "{\"amount\": 500,\"pub\": \"abcd\"}"

\* C7 (amended): with every declared field in extend with its declared
\* type, TxJson returns { then the fields' renderings in declaration order
\* with a comma, a carriage return and a line feed between two of them, then
\* }; the example gives {"amount": 500, CR LF, "pub": "abcd"}.
C7_TxJsonCommaCrLf ==
    (vmcall.op = "TxJson" /\ AllFieldsTyped(vmcall.contract)) =>
        /\ vmcall.ret.kind = "ok"
        /\ vmcall.ret.out = "{" \o Renderings(vmcall.contract, 1, ",\r\n") \o "}"
        /\ IsExample(vmcall.contract) =>
              vmcall.ret.out = "{\"amount\": 500,\r\n\"pub\": \"abcd\"}"
        /\ (/\ vmcall.contract.Block.Name = "Gift"
            /\ vmcall.contract.Extend["memo"] = StringValue("hi")
            /\ vmcall.contract.Extend["amount"] = Int64Value(-7)
            /\ vmcall.contract.Extend["pub"] = BytesValue(<<0, 15>>)) =>
              vmcall.ret.out = "{\"memo\": \"hi\",\r\n\"amount\": -7,\r\n\"pub\": \"000f\"}"

\* C7 witness: TxJson was called on the example and returned its two
\* renderings.
C7_Witness ==
    /\ vmcall.op = "TxJson"
    /\ IsExample(vmcall.contract)
    /\ vmcall.ret = [kind |-> "ok", out |-> "{\"amount\": 500,\r\n\"pub\": \"abcd\"}"]

\* C8 (as claimed): when a declared field is missing from extend or holds a
\* value of another type than declared, TxJson reports a field-encoding
\* error: it neither returns an output string nor faults.
C8_Original ==
    (vmcall.op = "TxJson" /\ ~AllFieldsTyped(vmcall.contract)) =>
        vmcall.ret.kind = "error"

(***************************************************************************)
(* Package smart, called from two goroutines: one compiles or flushes,     *)
(* one looks a contract up.  Neither Compile, FlushBlock, GetContract nor  *)
(* GetContractById takes a lock, so their reads and writes of              *)
(* smartVM.Objects and smartVM.Children interleave.  A read of the map or  *)
(* of the slice while its write is in progress is a data race: it may see  *)
(* the value before the write, the value after it, or fault.               *)
(***************************************************************************)
\* ids inside and above 0..len(Children)-1
RaceIds == 0..MaxChildren

WriterBegin ==
    /\ writer.pc = "idle"
    /\ Len(Children) < MaxChildren
    /\ \E op \in {"Compile", "FlushBlock"}, src \in Sources :
         writer' = [pc |-> "objects", op |-> op, block |-> src]
    /\ UNCHANGED <<schedVars, treeVars, vmcall, reader, tx>>

\* the write of smartVM.Objects[name] completes
WriterObjects ==
    /\ writer.pc = "objects"
    /\ Objects' = Register(Objects, writer.block)
    /\ writer' = [writer EXCEPT !.pc = "children"]
    /\ UNCHANGED <<schedVars, Children, vmcall, reader, tx>>

\* the append to smartVM.Children completes
WriterChildren ==
    /\ writer.pc = "children"
    /\ Children' = Append(Children, writer.block)
    /\ writer' = IdleWriter
    /\ UNCHANGED <<schedVars, Objects, vmcall, reader, tx>>

\* the values a read of smartVM.Objects may see
ObjectsSeen ==
    IF writer.pc = "objects"
    THEN {Objects, Register(Objects, writer.block)}
    ELSE {Objects}

\* the values a read of smartVM.Children may see
ChildrenSeen ==
    IF writer.pc = "children"
    THEN {Children, Append(Children, writer.block)}
    ELSE {Children}

ReaderBegin ==
    /\ reader.pc = "idle"
    /\ \/ \E name \in Names :
            reader' = [pc |-> "objects", op |-> "GetContract", name |-> name,
                       racy |-> FALSE, fault |-> FALSE, ret |-> [kind |-> "nil"],
                       lenVersion |-> 0, readVersion |-> 0]
       \/ \E id \in RaceIds :
            reader' = [pc |-> "len", op |-> "GetContractById", id |-> id,
                       racy |-> FALSE, fault |-> FALSE, ret |-> [kind |-> "nil"],
                       lenVersion |-> 0, readVersion |-> 0]
    /\ UNCHANGED <<schedVars, treeVars, vmcall, writer, tx>>

\* GetContract: obj, ok := smartVM.Objects[name]
ReadObjects ==
    /\ reader.pc = "objects"
    /\ \/ \E objects \in ObjectsSeen :
            reader' = [reader EXCEPT !.pc = "done",
                                     !.racy = (writer.pc = "objects"),
                                     !.ret = GetContract(objects, reader.name)]
       \/ /\ writer.pc = "objects"
          /\ reader' = [reader EXCEPT !.pc = "done", !.racy = TRUE,
                                      !.fault = TRUE]
    /\ UNCHANGED <<schedVars, treeVars, vmcall, writer, tx>>

\* GetContractById: len(smartVM.Children) <= int(idcont)
ReadLen ==
    /\ reader.pc = "len"
    /\ \E children \in ChildrenSeen :
         reader' = [reader EXCEPT
                      !.pc = IF Len(children) <= reader.id THEN "done" ELSE "type",
                      !.racy = (writer.pc = "children"),
                      !.lenVersion = Len(Children),
                      !.readVersion = Len(Children)]
    /\ UNCHANGED <<schedVars, treeVars, vmcall, writer, tx>>

\* one read of smartVM.Children[idcont]: the element, or a fault
ElementsSeen ==
    {IF reader.id < Len(children)
     THEN [fault |-> FALSE, block |-> children[reader.id + 1]]
     ELSE [fault |-> TRUE]
       : children \in ChildrenSeen}
    \cup (IF writer.pc = "children" THEN {[fault |-> TRUE]} ELSE {})

\* GetContractById: smartVM.Children[idcont].Type != script.OBJ_CONTRACT
ReadType ==
    /\ reader.pc = "type"
    /\ \E e \in ElementsSeen :
         reader' = [reader EXCEPT
                      !.pc = IF e.fault \/ e.block.Type # OBJ_CONTRACT
                             THEN "done" ELSE "name",
                      !.fault = e.fault,
                      !.racy = @ \/ (writer.pc = "children"),
                      !.readVersion = Len(Children)]
    /\ UNCHANGED <<schedVars, treeVars, vmcall, writer, tx>>

\* GetContractById: smartVM.Children[idcont].Info.(*script.ContractInfo).Name
ReadName ==
    /\ reader.pc = "name"
    /\ \E e \in ElementsSeen :
         reader' = [reader EXCEPT
                      !.pc = IF e.fault THEN "done" ELSE "block",
                      !.fault = e.fault,
                      !.racy = @ \/ (writer.pc = "children"),
                      !.readVersion = Len(Children),
                      !.ret = IF e.fault THEN [kind |-> "nil"]
                              ELSE [kind |-> "contract", Name |-> e.block.Name]]
    /\ UNCHANGED <<schedVars, treeVars, vmcall, writer, tx>>

\* GetContractById: Block: smartVM.Children[idcont]
ReadBlock ==
    /\ reader.pc = "block"
    /\ \E e \in ElementsSeen :
         reader' = [reader EXCEPT
                      !.pc = "done",
                      !.fault = e.fault,
                      !.racy = @ \/ (writer.pc = "children"),
                      !.readVersion = Len(Children),
                      !.ret = IF e.fault THEN [kind |-> "nil"]
                              ELSE [kind |-> "contract", Name |-> @.Name,
                                    Block |-> e.block]]
    /\ UNCHANGED <<schedVars, treeVars, vmcall, writer, tx>>

ReaderReturn ==
    /\ reader.pc = "done"
    /\ reader' = IdleReader
    /\ UNCHANGED <<schedVars, treeVars, vmcall, writer, tx>>

NextRace ==
    \/ WriterBegin
    \/ WriterObjects
    \/ WriterChildren
    \/ ReaderBegin
    \/ ReadObjects
    \/ ReadLen
    \/ ReadType
    \/ ReadName
    \/ ReadBlock
    \/ ReaderReturn

SpecRace == InitVM /\ [][NextRace]_vars

\* C9 (as claimed): a lookup that runs while Compile or FlushBlock changes
\* the tree does not fault, sees the tree entirely before or entirely after
\* the change, returns a handle whose Name and Block are of one object, and
\* makes its bounds check and its element reads of one version of Children.
C9_Original ==
    (reader.pc = "done") =>
        /\ ~reader.fault
        /\ ~reader.racy
        /\ reader.lenVersion = reader.readVersion
        /\ reader.ret.kind = "contract" =>
              reader.ret.Name = reader.ret.Block.Name

(***************************************************************************)
(* Execution of a contract for one transaction.  Run hands the block to a  *)
(* fresh runtime; the caller runs the phases init, front and main in that  *)
(* order, each phase whose bit is set in Called and whose function the     *)
(* contract has, and stops at the first phase that returns an error.       *)
(***************************************************************************)
MaxParams == 2       \* length of the params a caller hands to Run

RuntimeError == "runtime error"

\* the params a caller may hand to Run: nil, or a sequence of values
ParamSets ==
    {Nil} \cup {[tag |-> "params", vals |-> [i \in 1..n |-> i]] : n \in 0..MaxParams}

\* the extend maps of the transactions
TxExtends ==
    {e \in Extends : e["pub"] = BytesValue(<<171, 205>>) /\ e["memo"] = Nil
                     /\ e["amount"].tag = "int64"}

\* rt := smartVM.RunInit(); rt.Run(block, nil, extend): what the fresh
\* runtime is handed
Run(block, params, extend) ==
    [runtime |-> "fresh", block |-> block, params |-> Nil, extend |-> extend]

HasBit(called, flag) == (called \div flag) % 2 = 1

PhaseBit(phase) ==
    CASE phase = "init" -> CALL_INIT
      [] phase = "front" -> CALL_FRONT
      [] phase = "main" -> CALL_MAIN

PhaseAfter(phase) ==
    CASE phase = "init" -> "front"
      [] phase = "front" -> "main"
      [] phase = "main" -> "done"

AfterRunIgnoringError(phase, err) ==
    PhaseAfter(phase)

\* where the caller goes after a phase's run
AfterRun(phase, err) ==
    IF err # NoError THEN "rejected" ELSE PhaseAfter(phase)

BeginTx ==
    /\ tx.pc = "idle"
    /\ \E name \in Names, called \in 0..(CALL_INIT + CALL_FRONT + CALL_MAIN),
          e \in TxExtends, params \in ParamSets :
         LET c == GetContract(Objects, name)
         IN  /\ c.kind = "contract"
             /\ tx' = [pc |-> "init",
                       contract |-> [Name |-> c.Name, Called |-> called,
                                     Extend |-> e, Block |-> c.Block],
                       params |-> params,
                       runs |-> <<>>]
    /\ UNCHANGED <<schedVars, treeVars, vmcall, raceVars>>

\* one phase: skipped, or run to success or to an error
Phase(phase) ==
    /\ tx.pc = phase
    /\ LET f == GetFunc(tx.contract, phase)
       IN  IF HasBit(tx.contract.Called, PhaseBit(phase)) /\ f.kind = "block"
           THEN \E err \in {NoError, RuntimeError} :
                  tx' = [tx EXCEPT
                           !.pc = AfterRun(phase, err),
                           !.runs = Append(@,
                              [phase |-> phase,
                               call |-> Run(f, tx.params, tx.contract.Extend),
                               err |-> err])]
           ELSE tx' = [tx EXCEPT !.pc = PhaseAfter(phase)]
    /\ UNCHANGED <<schedVars, treeVars, vmcall, raceVars>>

PhaseInit == Phase("init")

PhaseFront == Phase("front")

PhaseMain == Phase("main")

EndTx ==
    /\ tx.pc \in {"done", "rejected"}
    /\ tx' = NoTx
    /\ UNCHANGED <<schedVars, treeVars, vmcall, raceVars>>

NextTx ==
    \/ Compile
    \/ BeginTx
    \/ PhaseInit
    \/ PhaseFront
    \/ PhaseMain
    \/ EndTx

SpecTx == InitVM /\ [][NextTx]_vars

\* C10: in the runs of one transaction, no run of the main phase comes
\* after a run of the front phase that returned an error.
C10_NoMainAfterFailedFront ==
    (tx.pc # "idle") =>
        \A i \in 1..Len(tx.runs) : \A j \in 1..Len(tx.runs) :
            (i < j /\ tx.runs[i].phase = "front" /\ tx.runs[i].err # NoError)
                => tx.runs[j].phase # "main"

\* C10 witness: the front phase of a contract that has a main function,
\* called with the main bit set, returned an error and the transaction was
\* rejected.
C10_Witness ==
    /\ tx.pc = "rejected"
    /\ HasBit(tx.contract.Called, CALL_MAIN)
    /\ "main" \in tx.contract.Block.Funcs
    /\ Len(tx.runs) > 0
    /\ tx.runs[Len(tx.runs)].phase = "front"
    /\ tx.runs[Len(tx.runs)].err = RuntimeError

(***************************************************************************)
(* Run, called directly with a function of a compiled contract.            *)
(***************************************************************************)
CallRun ==
    /\ \E name \in Names, f \in FuncNames, params \in ParamSets,
          e \in TxExtends :
         LET c == GetContract(Objects, name)
         IN  /\ c.kind = "contract"
             /\ GetFunc(c, f).kind = "block"
             /\ vmcall' = [op |-> "Run", block |-> GetFunc(c, f),
                           params |-> params, extend |-> e,
                           ret |-> Run(GetFunc(c, f), params, e)]
    /\ UNCHANGED <<schedVars, treeVars, raceVars, tx>>

NextRun ==
    \/ Compile
    \/ CallRun

SpecRun == InitVM /\ [][NextRun]_vars

\* C11 (as claimed): Run executes the block on a fresh runtime with the
\* arguments of its caller: the runtime is handed the caller's block, the
\* caller's params, non-empty sequences included, and the caller's extend.
C11_Original ==
    (vmcall.op = "Run") =>
        /\ vmcall.ret.runtime = "fresh"
        /\ vmcall.ret.block = vmcall.block
        /\ vmcall.ret.params = vmcall.params
        /\ vmcall.ret.extend = vmcall.extend

(***************************************************************************)
(* Node positions outside 0..numberNodes-1.                                *)
(***************************************************************************)
\* C12 (as claimed): for a node position outside 0..numberNodes-1, negative
\* ones included, and any time, TimeToGenerate and NextTime return
\* WrongNodePositionError; so TimeToGenerate never returns true with an
\* error, and NextTime never returns, without error, a time that is not
\* after the given time.
C12_Original ==
    /\ (call.op \in {"TimeToGenerate", "NextTime"} /\ ~ValidPosition(call.pos))
          => call.ret.err = WrongNodePositionError
    /\ (call.op = "TimeToGenerate")
          => ~(call.ret.val = TRUE /\ call.ret.err # NoError)
    /\ (call.op = "NextTime" /\ call.ret.err = NoError)
          => call.ret.val > call.t

====
